---------------------------- MODULE Spec2Model ----------------------------
(***************************************************************************)
(* Model of py_tutorials/3_2_patch_features.ipynb: per-patch contrast      *)
(* normalization (contrast_normalize), the ZCA whitening fit (ZCA_whiten), *)
(* its application, and the two autoencoder training cells that consume    *)
(* the raw and the whitened patches.                                       *)
(*                                                                         *)
(* Numbers.  The notebook computes in floating point; the model computes   *)
(* exactly, in the field generated by the rationals and the square roots   *)
(* of positive integers.  A number is a finite set of terms                *)
(* [r |-> k, c |-> <<n, d>>] standing for the sum of (n/d) * sqrt(k), k     *)
(* square-free, n # 0, d > 0, gcd(n, d) = 1, one term per k.  The empty set *)
(* is 0.  Every IEEE non-finite result (nan, +inf, -inf) is the single      *)
(* absorbing value NonFinite: the operations used here (+, -, *, /, sqrt)  *)
(* never lead from a non-finite operand back to a finite result.           *)
(***************************************************************************)
EXTENDS Integers, Sequences, FiniteSets

(***************************************************************************)
(* Bounds of the model.                                                    *)
(***************************************************************************)
\* a batch holds at most MaxSize numbers (rows times features)
MaxSize == 4
\* at most MaxD features per flattened patch
MaxD == 2
\* the raw patch array has between 1 and MaxNdim axes
MaxNdim == 3
\* pixel values of the raw patches
Vals == {-1, 0, 1}
\* coordinates of the (unnormalised) eigenvector directions eigh may return
DirVals == {-2, -1, 0, 1, 2}

(***************************************************************************)
(* Rational numbers <<n, d>>, d > 0, in lowest terms.                      *)
(***************************************************************************)
Abs(n) == IF n < 0 THEN -n ELSE n

RECURSIVE GCD(_, _)
GCD(a, b) == IF b = 0 THEN a ELSE GCD(b, a % b)

QNorm(n, d) ==
    LET g == GCD(Abs(n), Abs(d))
        s == IF d < 0 THEN -1 ELSE 1
    IN  <<(s * n) \div g, (s * d) \div g>>

QAdd(p, q) == QNorm(p[1] * q[2] + q[1] * p[2], p[2] * q[2])
QMul(p, q) == QNorm(p[1] * q[1], p[2] * q[2])
QNeg(p) == <<-p[1], p[2]>>
QInv(p) == QNorm(p[2], p[1])
QLess(p, q) == p[1] * q[2] < q[1] * p[2]
QLeq(p, q) == p[1] * q[2] <= q[1] * p[2]
QMax(p, q) == IF QLess(p, q) THEN q ELSE p

(***************************************************************************)
(* Numbers: sums of rational multiples of square roots.                    *)
(***************************************************************************)
NonFinite == {[r |-> 0, c |-> <<1, 1>>]}
Zero == {}
Rat(q) == IF q[1] = 0 THEN {} ELSE {[r |-> 1, c |-> q]}
Num(n) == Rat(<<n, 1>>)
One == Num(1)
IsFinite(x) == x # NonFinite
Coef(x, k) == IF \E t \in x : t.r = k THEN (CHOOSE t \in x : t.r = k).c ELSE <<0, 1>>
IsRational(x) == IsFinite(x) /\ \A t \in x : t.r = 1
AsRat(x) == Coef(x, 1)

Add(x, y) ==
    IF x = NonFinite \/ y = NonFinite THEN NonFinite
    ELSE IF x = Zero THEN y
    ELSE IF y = Zero THEN x
    ELSE {t \in {[r |-> k, c |-> QAdd(Coef(x, k), Coef(y, k))] :
                    k \in {u.r : u \in x \cup y}} : t.c[1] # 0}

Neg(x) == IF x = NonFinite THEN NonFinite ELSE {[r |-> t.r, c |-> QNeg(t.c)] : t \in x}
Sub(x, y) == Add(x, Neg(y))

\* c1*sqrt(r1) * c2*sqrt(r2) = c1*c2*g * sqrt((r1/g)*(r2/g)), g = gcd(r1, r2)
MulTerm(t, y) ==
    {[r |-> (t.r \div GCD(t.r, u.r)) * (u.r \div GCD(t.r, u.r)),
      c |-> QMul(QMul(t.c, u.c), <<GCD(t.r, u.r), 1>>)] : u \in y}

RECURSIVE MulAcc(_, _, _)
MulAcc(x, y, acc) ==
    IF x = {} THEN acc
    ELSE LET t == CHOOSE t \in x : TRUE
         IN  MulAcc(x \ {t}, y, Add(acc, MulTerm(t, y)))

Mul(x, y) ==
    IF x = NonFinite \/ y = NonFinite THEN NonFinite
    ELSE IF x = Zero \/ y = Zero THEN Zero
    ELSE MulAcc(x, y, Zero)

\* the largest m with m*m dividing n (n > 0), searched from i upwards
RECURSIVE SqPart(_, _)
SqPart(n, i) ==
    IF i * i > n THEN 1
    ELSE IF n % (i * i) = 0 THEN i * SqPart(n \div (i * i), i)
    ELSE SqPart(n, i + 1)

\* np.sqrt of a rational, nan for a negative one.  With p = mp*mp*kp and
\* q = mq*mq*kq (kp, kq square-free): sqrt(p/q) = (mp / (mq*kq)) * sqrt(kp*kq)
SqrtQ(q) ==
    IF q[1] < 0 THEN NonFinite
    ELSE IF q[1] = 0 THEN Zero
    ELSE LET mp == SqPart(q[1], 2)
             mq == SqPart(q[2], 2)
             kp == q[1] \div (mp * mp)
             kq == q[2] \div (mq * mq)
         IN  {[r |-> kp * kq, c |-> QNorm(mp, mq * kq)]}

\* x / y for y a single term c*sqrt(k): 1/(c*sqrt(k)) = sqrt(k)/(c*k).
\* IEEE: a division by zero gives nan or an infinity, never an exception.
Div(x, y) ==
    IF x = NonFinite \/ y = NonFinite \/ y = Zero THEN NonFinite
    ELSE LET t == CHOOSE t \in y : TRUE
         IN  Mul(x, {[r |-> t.r, c |-> QInv(QMul(t.c, <<t.r, 1>>))]})

(***************************************************************************)
(* numpy arrays: a shape and the numbers in row-major order.               *)
(***************************************************************************)
RECURSIVE Prod(_)
Prod(s) == IF s = <<>> THEN 1 ELSE Head(s) * Prod(Tail(s))

RECURSIVE SumSeq(_)
SumSeq(s) == IF s = <<>> THEN Zero ELSE Add(Head(s), SumSeq(Tail(s)))

NoArray == [shape |-> <<>>, data |-> <<>>]
ndim(A) == Len(A.shape)
At(A, i, j) == A.data[(i - 1) * A.shape[2] + j]
Row(A, i) == [j \in 1..A.shape[2] |-> At(A, i, j)]
Col(A, j) == [i \in 1..A.shape[1] |-> At(A, i, j)]
Array2(n, d, F(_, _)) ==
    [shape |-> <<n, d>>,
     data |-> [k \in 1..(n * d) |-> F(((k - 1) \div d) + 1, ((k - 1) % d) + 1)]]
Vector(n, F(_)) == [shape |-> <<n>>, data |-> [k \in 1..n |-> F(k)]]
AllFinite(A) == \A k \in 1..Len(A.data) : IsFinite(A.data[k])

\* np.maximum and np.sqrt on the (rational) squared norms
Maximum(x, q) == Rat(QMax(AsRat(x), q))
Sqrt(x) == IF x = NonFinite THEN NonFinite ELSE SqrtQ(AsRat(x))

(***************************************************************************)
(* contrast_normalize(patches), reading the globals remove_mean, hard_beta *)
(* and beta.  The result records the exception raised, if any, every       *)
(* intermediate array, the data handed to hist(), and the returned X.      *)
(***************************************************************************)
CNRaise ==
    [raised |-> TRUE, xm |-> NoArray, Xc |-> NoArray, l2 |-> NoArray,
     hist |-> NoArray, div2 |-> NoArray, X |-> NoArray]

RowMean(rm, X, i) ==
    IF rm THEN Mul(SumSeq(Row(X, i)), Rat(<<1, X.shape[2]>>))
    ELSE Mul(At(X, i, 1), Zero)

\* plausible slips in the denominator policy: the two branches exchanged,
\* the clamp taken from above (np.minimum), beta forgotten in the sum
DenominatorSwapped(hb, b, l2i) ==
    IF hb THEN Add(l2i, Rat(b)) ELSE Maximum(l2i, b)

DenominatorMinimum(hb, b, l2i) ==
    IF hb THEN (IF QLess(AsRat(l2i), b) THEN l2i ELSE Rat(b)) ELSE Add(l2i, Rat(b))

DenominatorNoBeta(hb, b, l2i) ==
    IF hb THEN Maximum(l2i, b) ELSE l2i

DenominatorSoftOnly(hb, b, l2i) == Add(l2i, Rat(b))

Denominator(hb, b, l2i) ==
    IF hb THEN Maximum(l2i, b) ELSE Add(l2i, Rat(b))

\* a plausible slip: only arrays with fewer than two axes are refused
NotFlatOnlyBelow2(patches) == ndim(patches) < 2

\* if X.ndim != 2: raise TypeError('contrast_normalize requires flat patches')
NotFlat(patches) == ndim(patches) # 2

contrast_normalize(patches, rm, hb, b) ==
    IF NotFlat(patches) THEN CNRaise
    ELSE LET X == patches
             n == X.shape[1]
             d == X.shape[2]
             xm == Vector(n, LAMBDA i : RowMean(rm, X, i))
             Xc == Array2(n, d, LAMBDA i, j : Sub(At(X, i, j), xm.data[i]))
             l2 == Vector(n, LAMBDA i : SumSeq([j \in 1..d |-> Mul(At(Xc, i, j), At(Xc, i, j))]))
             div2 == Vector(n, LAMBDA i : Denominator(hb, b, l2.data[i]))
         IN  [raised |-> FALSE, xm |-> xm, Xc |-> Xc, l2 |-> l2, hist |-> l2,
              div2 |-> div2,
              X |-> Array2(n, d, LAMBDA i, j : Div(At(Xc, i, j), Sqrt(div2.data[i])))]

(***************************************************************************)
(* ZCA_whiten(patches), reading the globals remove_mean, hard_beta, beta   *)
(* and gamma.                                                              *)
(***************************************************************************)
\* patches.reshape(len(patches), -1).astype('float64')
Reshape(patches) ==
    [shape |-> <<patches.shape[1], Prod(Tail(patches.shape))>>, data |-> patches.data]

\* util.mean_and_std(X)[0]: the mean of every feature (column) over the patches
mean_and_std(X) ==
    Vector(X.shape[2], LAMBDA j : Mul(SumSeq(Col(X, j)), Rat(<<1, X.shape[1]>>)))

\* X - M, the mean broadcast over the rows
Center(X, M) ==
    Array2(X.shape[1], X.shape[2], LAMBDA i, j : Sub(At(X, i, j), M.data[j]))

\* np.dot(A, B) of two 2-d arrays
Dot2(A, B) ==
    Array2(A.shape[1], B.shape[2],
           LAMBDA i, j : SumSeq([k \in 1..A.shape[2] |-> Mul(At(A, i, k), At(B, k, j))]))

Transpose(A) == Array2(A.shape[2], A.shape[1], LAMBDA i, j : At(A, j, i))

\* np.dot(Xm.T, Xm) / (Xm.shape[0] - 1)
Covariance(Xm) ==
    LET G == Dot2(Transpose(Xm), Xm)
    IN  Array2(G.shape[1], G.shape[2],
               LAMBDA i, j : Div(At(G, i, j), Num(Xm.shape[1] - 1)))

(***************************************************************************)
(* np.linalg.eigh(C).  numpy promises eigenvalues in ascending order and   *)
(* orthonormal eigenvectors as the columns of V; the sign of a column and  *)
(* the basis of a repeated eigenvalue are LAPACK's choice, so eigh is the  *)
(* set of every answer it may give.  The model searches the eigenvectors   *)
(* among the directions with coordinates in DirVals and the eigenvalues    *)
(* among the rationals; a matrix with no such eigenbasis has no answer     *)
(* here.  A matrix holding a non-finite entry makes LAPACK either fail     *)
(* (LinAlgError) or return nan throughout.                                 *)
(***************************************************************************)
\* the directions: one integer vector for each unit vector (no common factor)
Dirs(d) ==
    {u \in [1..d -> DirVals] :
        /\ \E k \in 1..d : u[k] # 0
        /\ \A f \in {Abs(v) : v \in DirVals} \ {0, 1} : \E k \in 1..d : u[k] % f # 0}

MatVec(C, u) ==
    [a \in 1..C.shape[1] |->
        SumSeq([b \in 1..C.shape[2] |-> Mul(At(C, a, b), Num(u[b]))])]

\* the pair (u, lam) for a direction u, lam the ratio (C u)[k] / u[k] at the
\* first non-zero coordinate k of u
Candidate(C, u) ==
    LET k == CHOOSE k \in 1..C.shape[1] : u[k] # 0 /\ \A i \in 1..(k - 1) : u[i] = 0
        w == MatVec(C, u)
    IN  [u |-> u, w |-> w, lam |-> Mul(w[k], Rat(<<1, u[k]>>))]

\* C u = lam u, lam rational
IsEigenpair(e) ==
    /\ IsRational(e.lam)
    /\ \A a \in 1..Len(e.u) : e.w[a] = Mul(e.lam, Num(e.u[a]))

IntDot(u, v) == AsRat(SumSeq([k \in 1..Len(u) |-> Num(u[k] * v[k])]))[1]

EigenBases(C) ==
    LET d == C.shape[1]
        E == {e \in {Candidate(C, u) : u \in Dirs(d)} : IsEigenpair(e)}
    IN  {B \in [1..d -> E] :
            \A i \in 1..d : \A j \in 1..d :
                i < j => /\ IntDot(B[i].u, B[j].u) = 0
                         /\ QLeq(AsRat(B[i].lam), AsRat(B[j].lam))}

eigh(C) ==
    LET d == C.shape[1]
    IN  IF ~AllFinite(C)
        THEN {[raised |-> TRUE, D |-> NoArray, V |-> NoArray],
              [raised |-> FALSE, D |-> Vector(d, LAMBDA j : NonFinite),
               V |-> Array2(d, d, LAMBDA a, j : NonFinite)]}
        ELSE {[raised |-> FALSE,
               D |-> Vector(d, LAMBDA j : B[j].lam),
               V |-> Array2(d, d, LAMBDA a, j :
                        Div(Num(B[j].u[a]), Sqrt(Num(IntDot(B[j].u, B[j].u)))))] :
              B \in EigenBases(C)}

\* plausible slips: gamma forgotten, gamma subtracted
RegularizeNoGamma(lam, g) == Div(One, lam)

RegularizeMinus(lam, g) == Div(One, Sub(lam, Rat(g)))

\* 1.0 / (D + gamma), one eigenvalue
Regularize(lam, g) == Div(One, Add(lam, Rat(g)))

\* a plausible slip: the second factor not transposed
WhiteningMatrixNoTranspose(D, V, g) ==
    LET d == V.shape[1]
        SV == Array2(d, d, LAMBDA a, j : Mul(Sqrt(Regularize(D.data[j], g)), At(V, a, j)))
    IN  Dot2(SV, V)

\* np.dot(np.sqrt(1.0 / (D + gamma)) * V, V.T)
WhiteningMatrix(D, V, g) ==
    LET d == V.shape[1]
        SV == Array2(d, d, LAMBDA a, j : Mul(Sqrt(Regularize(D.data[j], g)), At(V, a, j)))
    IN  Dot2(SV, Transpose(V))

\* a plausible slip: the patches handed on as they came
ZCAInputAsIs(patches) == patches

\* X = patches.reshape(len(patches), -1).astype('float64')
ZCAInput(patches) == Reshape(patches)

ZCAFail(e, h) ==
    [raised |-> e, hist |-> h, plot |-> NoArray, M |-> NoArray, P |-> NoArray,
     X |-> NoArray]

\* every outcome of ZCA_whiten(patches): the exception raised ("none" when it
\* returns), the data of its two figures, and the returned M, P, X
ZCA_whiten(patches, rm, hb, b, g) ==
    LET cn == contrast_normalize(ZCAInput(patches), rm, hb, b)
        X == cn.X
        M == mean_and_std(X)
        Xm == Center(X, M)
        C == Covariance(Xm)
    IN  IF cn.raised THEN {ZCAFail("TypeError", NoArray)}
        ELSE IF Xm.shape # X.shape \/ ndim(M) # 1 THEN {ZCAFail("AssertionError", cn.hist)}
        ELSE {IF e.raised THEN ZCAFail("LinAlgError", cn.hist)
              ELSE [raised |-> "none", hist |-> cn.hist, plot |-> e.D, M |-> M,
                    P |-> WhiteningMatrix(e.D, e.V, g), X |-> X] : e \in eigh(C)}

\* a plausible slip: the mean not subtracted
WhitenNoCenter(X, M, P) == Dot2(X, P)

\* dot(ZCA_X - ZCA_M, ZCA_P)
Whiten(X, M, P) == Dot2(Center(X, M), P)

(***************************************************************************)
(* State.                                                                  *)
(***************************************************************************)
VARIABLES
    x_patches,      \* the raw patches (random_patches' result)
    remove_mean, hard_beta, beta, gamma,    \* the hyper-parameters
    pc,             \* the cell or call that ran last
    ret,            \* what a direct call of contrast_normalize produced
    prev,           \* what the call before it produced, under the other hard_beta
    zret,           \* what a call of ZCA_whiten produced
    ZCA_M, ZCA_P, ZCA_X, x_white_flat,      \* the whitening cell's globals
    fed             \* the streams handed to autodiff.fmin_sgd, in order

vars == <<x_patches, remove_mean, hard_beta, beta, gamma, pc, ret, prev, zret,
          ZCA_M, ZCA_P, ZCA_X, x_white_flat, fed>>

hyper == <<remove_mean, hard_beta, beta, gamma>>

Betas == {<<0, 1>>, <<1, 1>>, <<10, 1>>}
Gammas == {<<0, 1>>, <<1, 100>>}

Shapes ==
    {s \in UNION {[1..k -> 1..MaxSize] : k \in 1..MaxNdim} :
        Prod(s) <= MaxSize /\ Prod(Tail(s)) <= MaxD}

NoCall ==
    [raised |-> FALSE, xm |-> NoArray, Xc |-> NoArray, l2 |-> NoArray,
     hist |-> NoArray, div2 |-> NoArray, X |-> NoArray]

NoZCA == ZCAFail("not called", NoArray)

\* x_patches.reshape(n_patches, -1)
x_patches_flat == Reshape(x_patches)
n_examples == x_patches.shape[1]
n_visible == x_patches_flat.shape[2]

\* X.reshape((n_examples, 1, n_visible))
Stream(X) == [shape |-> <<n_examples, 1, n_visible>>, data |-> X.data]

Init ==
    /\ \E s \in Shapes : \E d \in [1..Prod(s) -> Vals] :
          x_patches = [shape |-> s, data |-> [k \in 1..Prod(s) |-> Num(d[k])]]
    /\ remove_mean \in BOOLEAN
    /\ hard_beta \in BOOLEAN
    /\ beta \in Betas
    /\ gamma \in Gammas
    /\ pc = "start"
    /\ ret = NoCall
    /\ prev = NoCall
    /\ zret = NoZCA
    /\ ZCA_M = NoArray /\ ZCA_P = NoArray /\ ZCA_X = NoArray
    /\ x_white_flat = NoArray
    /\ fed = <<>>

\* a direct call contrast_normalize(x_patches)
CallContrastNormalize ==
    /\ pc = "start"
    /\ ret' = contrast_normalize(x_patches, remove_mean, hard_beta, beta)
    /\ pc' = "called_cn"
    /\ UNCHANGED <<x_patches, hyper, prev, zret, ZCA_M, ZCA_P, ZCA_X, x_white_flat, fed>>

\* the hyper-parameter cell edited (hard_beta flipped) and run again, then
\* contrast_normalize(x_patches) called again
Retune ==
    /\ pc = "called_cn"
    /\ hard_beta' = ~hard_beta
    /\ prev' = ret
    /\ ret' = contrast_normalize(x_patches, remove_mean, hard_beta', beta)
    /\ pc' = "recalled_cn"
    /\ UNCHANGED <<x_patches, remove_mean, beta, gamma, zret, ZCA_M, ZCA_P, ZCA_X,
                   x_white_flat, fed>>

\* a direct call ZCA_whiten(x_patches), on the patches as sampled
CallZCAWhiten ==
    /\ pc = "start"
    /\ zret' \in ZCA_whiten(x_patches, remove_mean, hard_beta, beta, gamma)
    /\ pc' = "called_zca"
    /\ UNCHANGED <<x_patches, hyper, ret, prev, ZCA_M, ZCA_P, ZCA_X, x_white_flat, fed>>

\* the cell TRAIN THE AUTOENCODER ON RAW PATCHES
TrainRaw ==
    /\ pc = "start"
    /\ fed' = Append(fed, Stream(x_patches))
    /\ pc' = "trained_raw"
    /\ UNCHANGED <<x_patches, hyper, ret, prev, zret, ZCA_M, ZCA_P, ZCA_X, x_white_flat>>

\* the whitening cell: ZCA_M, ZCA_P, ZCA_X = ZCA_whiten(x_patches_flat), then
\* x_white_flat = dot(ZCA_X - ZCA_M, ZCA_P); an exception ends the cell
WhitenCell ==
    /\ pc = "trained_raw"
    /\ zret' \in ZCA_whiten(x_patches_flat, remove_mean, hard_beta, beta, gamma)
    /\ IF zret'.raised = "none"
       THEN /\ ZCA_M' = zret'.M
            /\ ZCA_P' = zret'.P
            /\ ZCA_X' = zret'.X
            /\ x_white_flat' = Whiten(zret'.X, zret'.M, zret'.P)
            /\ pc' = "whitened"
       ELSE /\ pc' = "aborted"
            /\ UNCHANGED <<ZCA_M, ZCA_P, ZCA_X, x_white_flat>>
    /\ UNCHANGED <<x_patches, hyper, ret, prev, fed>>

\* the cell TRAIN THE AUTOENCODER ON WHITENED PATCHES
TrainWhitened ==
    /\ pc = "whitened"
    /\ fed' = Append(fed, Stream(x_white_flat))
    /\ pc' = "done"
    /\ UNCHANGED <<x_patches, hyper, ret, prev, zret, ZCA_M, ZCA_P, ZCA_X, x_white_flat>>

Next ==
    \/ CallContrastNormalize
    \/ Retune
    \/ CallZCAWhiten
    \/ TrainRaw
    \/ WhitenCell
    \/ TrainWhitened

Spec == Init /\ [][Next]_vars

(***************************************************************************)
(* What the claims speak of, written out from the raw patches.             *)
(***************************************************************************)
N == x_patches.shape[1]
NFeatures == Prod(Tail(x_patches.shape))
Raw(i, j) == x_patches.data[(i - 1) * NFeatures + j]
CalledCN == pc \in {"called_cn", "recalled_cn"}
Returned == CalledCN /\ ~ret.raised
Positive(q) == q[1] > 0

\* the squared L2 norm of row i of a 2-d array
SquaredNorm(A, i) == SumSeq([j \in 1..A.shape[2] |-> Mul(At(A, i, j), At(A, i, j))])
RawSquaredNorm(i) == SumSeq([j \in 1..NFeatures |-> Mul(Raw(i, j), Raw(i, j))])

\* the centered row: the row minus its feature-axis mean, or minus zero
ExpectedMean(i) ==
    IF remove_mean
    THEN Mul(SumSeq([j \in 1..NFeatures |-> Raw(i, j)]), Rat(<<1, NFeatures>>))
    ELSE Zero
ExpectedCentered(i, j) == Sub(Raw(i, j), ExpectedMean(i))
ExpectedL2(i) ==
    LET m == ExpectedMean(i)
    IN  SumSeq([j \in 1..NFeatures |-> Mul(Sub(Raw(i, j), m), Sub(Raw(i, j), m))])
ExpectedDen(i) ==
    LET l2 == ExpectedL2(i)
    IN  IF hard_beta
        THEN (IF QLess(AsRat(l2), beta) THEN Rat(beta) ELSE l2)
        ELSE Add(l2, Rat(beta))
RowIsZero(A, i) == \A j \in 1..A.shape[2] : At(A, i, j) = Zero
RowNonFinite(A, i) == \A j \in 1..A.shape[2] : At(A, i, j) = NonFinite

(***************************************************************************)
(* C1.  contrast_normalize called with an input that has not exactly two   *)
(* axes raises TypeError at once: no mean, centered batch, norm, histogram *)
(* or denominator is computed and no batch is returned, whatever           *)
(* remove_mean, hard_beta and beta are.                                    *)
(***************************************************************************)
C1_ShapeErrorFirst ==
    (CalledCN /\ ndim(x_patches) # 2) =>
        /\ ret.raised
        /\ ret.xm = NoArray /\ ret.Xc = NoArray /\ ret.l2 = NoArray
        /\ ret.hist = NoArray /\ ret.div2 = NoArray /\ ret.X = NoArray

C1_Witness == pc = "called_cn" /\ ndim(x_patches) = 3 /\ ret.raised

(***************************************************************************)
(* C2.  For a 2-d batch, every row i is its centered row divided by        *)
(* sqrt(den_i), den_i = max(l2_i, beta) under hard_beta and l2_i + beta    *)
(* otherwise, l2_i the squared norm of the centered row; so the output     *)
(* row's squared norm times den_i is l2_i.  (Where den_i = 0 the quotient  *)
(* is not finite.)                                                         *)
(***************************************************************************)
C2_DividesBySqrtDen ==
    Returned =>
        \A i \in 1..N :
            LET l2 == ExpectedL2(i)
                den == ExpectedDen(i)
                root == Sqrt(den)
            IN  /\ ret.l2.data[i] = l2
                /\ ret.div2.data[i] = den
                /\ IF den = Zero
                   THEN RowNonFinite(ret.X, i)
                   ELSE /\ \A j \in 1..NFeatures :
                             Mul(At(ret.X, i, j), root) = ExpectedCentered(i, j)
                        /\ Mul(SquaredNorm(ret.X, i), den) = l2

C2_Witness ==
    /\ Returned /\ remove_mean /\ hard_beta /\ N = 2
    /\ QLess(AsRat(ExpectedL2(1)), beta) /\ ~RowIsZero(ret.X, 1)
    /\ QLess(beta, AsRat(ExpectedL2(2)))

(***************************************************************************)
(* C3 as stated.  With remove_mean and hard_beta (and beta > 0), every row *)
(* of the input batch whose own squared norm is >= beta comes back with    *)
(* squared norm 1, and every row below beta with squared norm < 1.         *)
(***************************************************************************)
C3_Original ==
    (Returned /\ remove_mean /\ hard_beta /\ Positive(beta)) =>
        \A i \in 1..N :
            IF QLeq(beta, AsRat(RawSquaredNorm(i)))
            THEN SquaredNorm(ret.X, i) = One
            ELSE QLess(AsRat(SquaredNorm(ret.X, i)), <<1, 1>>)

(***************************************************************************)
(* C3 amended.  With remove_mean and hard_beta and beta > 0, every row     *)
(* whose CENTERED squared norm (the row minus its mean) is >= beta comes   *)
(* back with squared norm 1, and every row whose centered squared norm is  *)
(* below beta with squared norm < 1.                                       *)
(***************************************************************************)
C3_UnitNormAboveBeta ==
    (Returned /\ remove_mean /\ hard_beta /\ Positive(beta)) =>
        \A i \in 1..N :
            LET out == SquaredNorm(ret.X, i)
            IN  IF QLeq(beta, AsRat(ExpectedL2(i)))
                THEN out = One
                ELSE QLess(AsRat(out), <<1, 1>>)

C3_Witness ==
    /\ Returned /\ remove_mean /\ hard_beta /\ Positive(beta) /\ N = 2
    /\ QLeq(beta, AsRat(ExpectedL2(1))) /\ SquaredNorm(ret.X, 1) = One
    /\ QLess(AsRat(ExpectedL2(2)), beta) /\ QLeq(beta, AsRat(RawSquaredNorm(2)))

(***************************************************************************)
(* C4.  With hard_beta and beta > 0 no denominator is zero: each is at     *)
(* least beta, every quotient is finite, and an all-zero patch comes back  *)
(* all zero.  With hard_beta off and beta = 0 the denominator of an        *)
(* all-zero patch is exactly 0 and its quotients 0/0 are not finite.       *)
(***************************************************************************)
C4_NoDivisionByZero ==
    Returned =>
        \A i \in 1..N :
            /\ (hard_beta /\ Positive(beta)) =>
                  /\ QLeq(beta, AsRat(ret.div2.data[i]))
                  /\ \A j \in 1..NFeatures : IsFinite(At(ret.X, i, j))
                  /\ RowIsZero(x_patches, i) => RowIsZero(ret.X, i)
            /\ (~hard_beta /\ beta = <<0, 1>> /\ RowIsZero(x_patches, i)) =>
                  /\ ret.div2.data[i] = Zero
                  /\ RowNonFinite(ret.X, i)

C4_Witness ==
    /\ Returned /\ hard_beta /\ Positive(beta)
    /\ \E i \in 1..N : RowIsZero(x_patches, i) /\ RowIsZero(ret.X, i)
                        /\ ret.div2.data[i] = Rat(beta)

(***************************************************************************)
(* C5.  The two results for the same batch, remove_mean and beta > 0:      *)
(* Hard under hard_beta = True, Soft under hard_beta = False.              *)
(***************************************************************************)
Compared == pc = "recalled_cn" /\ ~ret.raised /\ Positive(beta)
Hard == IF hard_beta THEN ret ELSE prev
Soft == IF hard_beta THEN prev ELSE ret
RowsEqual(A, B, i) == \A j \in 1..A.shape[2] : At(A, i, j) = At(B, i, j)

(***************************************************************************)
(* C5 as stated.  The two outputs differ only for rows whose squared norm  *)
(* is below beta: a row with squared norm >= beta is returned the same by  *)
(* both.                                                                   *)
(***************************************************************************)
C5_Original ==
    Compared =>
        \A i \in 1..N :
            QLeq(beta, AsRat(Hard.l2.data[i])) => RowsEqual(Hard.X, Soft.X, i)

(***************************************************************************)
(* C5 amended.  The two outputs have the same centered numerators and      *)
(* differ only in the denominator, and they differ for every row whose     *)
(* centered squared norm l2 is not zero: for l2 < beta the denominators    *)
(* are beta and l2 + beta (apart by l2), for l2 >= beta they are l2 and    *)
(* l2 + beta (apart by beta, so equal only as beta tends to 0).            *)
(***************************************************************************)
C5_DifferInDenominator ==
    Compared =>
        /\ Hard.Xc = Soft.Xc /\ Hard.l2 = Soft.l2
        /\ \A i \in 1..N :
              LET l2 == Hard.l2.data[i]
                  gap == Sub(Soft.div2.data[i], Hard.div2.data[i])
              IN  /\ gap = (IF QLess(AsRat(l2), beta) THEN l2 ELSE Rat(beta))
                  /\ RowsEqual(Hard.X, Soft.X, i) <=> l2 = Zero

C5_Witness ==
    /\ Compared /\ N = 2
    /\ QLeq(beta, AsRat(Hard.l2.data[1])) /\ ~RowsEqual(Hard.X, Soft.X, 1)
    /\ QLess(AsRat(Hard.l2.data[2]), beta) /\ ~RowsEqual(Hard.X, Soft.X, 2)

(***************************************************************************)
(* C6 - C8, C10: a call of ZCA_whiten, direct or from the whitening cell.  *)
(***************************************************************************)
ZCACalled == zret.raised # "not called"
ZCAReturned == zret.raised = "none"

\* P[i][j] = P[j][i] as numbers (a nan equals nothing, itself included)
Symmetric(P) ==
    \A i \in 1..P.shape[1] : \A j \in 1..P.shape[2] :
        IsFinite(At(P, i, j)) /\ At(P, i, j) = At(P, j, i)

ReturnsMeanAndSymmetricP ==
    /\ ZCAReturned
    /\ zret.M.shape = <<NFeatures>>
    /\ zret.P.shape = <<NFeatures, NFeatures>>
    /\ Symmetric(zret.P)

(***************************************************************************)
(* C6 as stated.  For every N x D batch (beta > 0 and gamma > 0, as the    *)
(* contract has them) ZCA_whiten returns a mean vector of length D and a   *)
(* symmetric D x D whitening matrix.                                       *)
(***************************************************************************)
C6_Original ==
    (ZCACalled /\ Positive(beta) /\ Positive(gamma)) => ReturnsMeanAndSymmetricP

(***************************************************************************)
(* C6 amended.  For every N x D batch of N >= 2 patches (beta > 0,         *)
(* gamma > 0) ZCA_whiten returns a mean vector of length D and a symmetric *)
(* D x D whitening matrix P = V diag(s) V^T.  (A batch of one patch makes  *)
(* the covariance 0/0: eigh then fails or P is nan throughout.)            *)
(***************************************************************************)
C6_SymmetricWhitening ==
    (ZCACalled /\ Positive(beta) /\ Positive(gamma) /\ N >= 2) =>
        ReturnsMeanAndSymmetricP

C6_Witness ==
    /\ pc = "called_zca" /\ Positive(beta) /\ Positive(gamma) /\ N >= 2
    /\ ReturnsMeanAndSymmetricP
    /\ NFeatures = 2
    /\ At(zret.P, 1, 2) # Zero
    /\ At(zret.P, 1, 1) # At(zret.P, 2, 2)

(***************************************************************************)
(* C7.  With gamma > 0 the regularized inversion 1/sqrt(lambda + gamma)    *)
(* never divides by zero: every eigenvalue lambda of the covariance is     *)
(* >= 0, lambda + gamma > 0 also where lambda = 0, and every entry of P is *)
(* finite.                                                                 *)
(***************************************************************************)
C7_PositiveDenominator ==
    (ZCAReturned /\ Positive(gamma) /\ AllFinite(zret.plot)) =>
        /\ \A j \in 1..NFeatures :
              /\ QLeq(<<0, 1>>, AsRat(zret.plot.data[j]))
              /\ Positive(QAdd(AsRat(zret.plot.data[j]), gamma))
        /\ AllFinite(zret.P)

C7_Witness ==
    /\ ZCAReturned /\ Positive(gamma) /\ AllFinite(zret.plot)
    /\ \E j \in 1..NFeatures : zret.plot.data[j] = Zero
    /\ \E j \in 1..NFeatures : zret.plot.data[j] # Zero
    /\ AllFinite(zret.P)

(***************************************************************************)
(* C8.  When the batch the whitening is fitted on has the identity as its  *)
(* covariance, the whitening matrix is (1/sqrt(1 + gamma)) * I: zero off   *)
(* the diagonal, 1/sqrt(1 + gamma) on it.                                  *)
(***************************************************************************)
FittedCovarianceTimesNm1(a, b) ==
    SumSeq([i \in 1..N |->
        Mul(Sub(At(zret.X, i, a), zret.M.data[a]), Sub(At(zret.X, i, b), zret.M.data[b]))])

FittedCovarianceIsIdentity ==
    /\ ZCAReturned /\ N >= 2
    /\ \A a \in 1..NFeatures : \A b \in 1..NFeatures :
          FittedCovarianceTimesNm1(a, b) = (IF a = b THEN Num(N - 1) ELSE Zero)

IsNormalizedBatch(X) ==
    /\ X.shape = <<N, NFeatures>>
    /\ \A i \in 1..N :
          LET den == ExpectedDen(i)
              root == Sqrt(den)
          IN  IF den = Zero THEN RowNonFinite(X, i)
              ELSE \A j \in 1..NFeatures :
                      Mul(At(X, i, j), root) = ExpectedCentered(i, j)

IsWhitened(W, X, M, P) ==
    /\ W.shape = <<N, NFeatures>>
    /\ \A i \in 1..N : \A j \in 1..NFeatures :
          At(W, i, j) =
              SumSeq([k \in 1..NFeatures |-> Mul(Sub(At(X, i, k), M.data[k]), At(P, k, j))])

AsStream(data) == [shape |-> <<N, 1, NFeatures>>, data |-> data]

C9_PipelineOrder ==
    /\ pc \in {"whitened", "done"} =>
          /\ ZCAReturned
          /\ IsNormalizedBatch(ZCA_X)
          /\ ZCA_X = zret.X /\ ZCA_M = zret.M /\ ZCA_P = zret.P
          /\ \A j \in 1..NFeatures :
                Mul(ZCA_M.data[j], Num(N)) = SumSeq([i \in 1..N |-> At(ZCA_X, i, j)])
          /\ IsWhitened(x_white_flat, ZCA_X, ZCA_M, ZCA_P)
    /\ pc \notin {"whitened", "done"} => x_white_flat = NoArray
    /\ pc \in {"trained_raw", "whitened", "aborted"} => fed = <<AsStream(x_patches.data)>>
    /\ pc = "done" => fed = <<AsStream(x_patches.data), AsStream(x_white_flat.data)>>
    /\ pc \in {"start", "called_cn", "recalled_cn", "called_zca"} => fed = <<>>

C9_Witness ==
    /\ pc = "done" /\ N = 2 /\ NFeatures = 2
    /\ AllFinite(x_white_flat)
    /\ ZCA_X.data # x_patches.data
    /\ x_white_flat.data # ZCA_X.data
    /\ \E j \in 1..NFeatures : ZCA_M.data[j] # Zero
    /\ fed[2].data = x_white_flat.data /\ fed[2].data # fed[1].data

(***************************************************************************)
(* C10.  The TypeError of contrast_normalize cannot come out of            *)
(* ZCA_whiten: whatever the number of axes of its input, ZCA_whiten        *)
(* reshapes it to two axes first; a direct call of contrast_normalize      *)
(* raises it exactly when its input has not two axes.                      *)
(***************************************************************************)
C10_NoTypeErrorThroughZCA ==
    /\ ZCACalled => zret.raised # "TypeError"
    /\ CalledCN => (ret.raised <=> ndim(x_patches) # 2)

C10_Witness ==
    /\ pc = "called_zca" /\ ndim(x_patches) = 3 /\ x_patches.shape[3] = 2
    /\ ZCAReturned /\ AllFinite(zret.P)

=============================================================================
